---- MODULE Spec2Model ----
(***************************************************************************)
(* A model of rtga-rust (src/src/lib.rs): the TGA header codec, the image  *)
(* type / color / bit depth validation, image construction, pixel writes   *)
(* and (de)serialization.                                                  *)
(*                                                                         *)
(* Representation.  A byte array (Box<[u8]>, Vec<u8>, a file's content) is *)
(* a record [len, nz]: its length and the function from the offsets of its *)
(* non-zero bytes to those bytes.  Two arrays are equal exactly when their *)
(* records are equal, and an array of several megabytes (the 1920 x 1080   *)
(* image of tests.rs) costs no more than its non-zero bytes.               *)
(* A Result is a record [tag |-> "Ok", ...] or [tag |-> "Err", err |-> e]; *)
(* a Rust panic (arithmetic overflow with overflow checks on, a slice      *)
(* index out of range, copy_from_slice on slices of different lengths) is  *)
(* [tag |-> "Panic"] and ends the program.  Integer overflow is not        *)
(* undefined in Rust: it panics in a build with overflow checks (the dev   *)
(* profile) and wraps in one without (the release profile); both builds    *)
(* are modelled.  usize is taken to be 64 bits wide, so image_size cannot  *)
(* overflow it.                                                            *)
(*                                                                         *)
(* The program holds one image and uses one file.  It starts either with   *)
(* no file, and builds its image with new, or with a file on disk, and     *)
(* reads its image from it; then it calls set_pixel, to_file and from_file *)
(* in any order.  from_file takes &self and never reads it, so the model's *)
(* from_file has no such parameter.  The file system may fail every open,  *)
(* read, create and write.                                                 *)
(*                                                                         *)
(* Three specifications: Spec is the program above; SpecHeader applies the *)
(* header codec to headers drawn from boundary values; SpecTable applies   *)
(* valid_color and valid_depth to every type, color kind and u8 depth.     *)
(***************************************************************************)
EXTENDS Integers, Sequences, FiniteSets, TLC

\* lib.rs:19
HEADER_SIZE == 18

\* the number of values of a u8 and of a u16
U8Range == 256
U16Range == 65536

----------------------------------------------------------------------------
(* Byte arrays *)

NoBytes == [i \in {} |-> 0]

\* vec![0; n]
Zeros(n) == [len |-> n, nz |-> NoBytes]

\* b[i]
At(b, i) == IF i \in DOMAIN b.nz THEN b.nz[i] ELSE 0

\* a fixed array or a sequence literal, s[1] being the byte at offset 0
FromSeq(s) ==
    [len |-> Len(s),
     nz  |-> [i \in {j \in 0..(Len(s) - 1) : s[j + 1] # 0} |-> s[i + 1]]]

\* b[start..end].to_vec(), for start <= end <= b.len
Slice(b, start, end) ==
    [len |-> end - start,
     nz  |-> [i \in {k - start : k \in {j \in DOMAIN b.nz : start <= j /\ j < end}}
                |-> b.nz[i + start]]]

\* the index check of b[start..end]: true when the range is accepted
RangeOk(b, start, end) == start <= end /\ end <= b.len

\* dst[start..start + src.len].copy_from_slice(src), the lengths agreeing
CopyFromSlice(dst, start, src) ==
    [len |-> dst.len,
     nz  |-> [k \in {j \in DOMAIN dst.nz : j < start \/ j >= start + src.len}
                      \cup {start + j : j \in DOMAIN src.nz}
                |-> IF k >= start /\ k < start + src.len
                    THEN src.nz[k - start] ELSE dst.nz[k]]]

----------------------------------------------------------------------------
(* TgaColor *)

ColorKinds == {"Greyscale", "RGB16", "RGB24", "RGBA"}

\* TgaColor::byte_depth
byte_depth(color) ==
    CASE color.kind = "Greyscale" -> 1
      [] color.kind = "RGB16" -> 2
      [] color.kind = "RGB24" -> 3
      [] color.kind = "RGBA" -> 4

\* TgaColor::bit_depth: u8 arithmetic, 4 * 8 at most
bit_depth(color) == byte_depth(color) * 8

\* TgaColor::as_slice
as_slice(color) == FromSeq(color.bytes)

----------------------------------------------------------------------------
(* TgaImageType *)

ImageTypes ==
    {"NoImage", "ColorMappedImage", "TrueColorImage", "BlackAndWhiteImage",
     "RleColorMappedImage", "RleTrueColorImage", "RleBlackAndWhiteImage"}

\* the enum's discriminants: `image_type as u8`
TypeCode(t) ==
    CASE t = "NoImage" -> 0
      [] t = "ColorMappedImage" -> 1
      [] t = "TrueColorImage" -> 2
      [] t = "BlackAndWhiteImage" -> 3
      [] t = "RleColorMappedImage" -> 9
      [] t = "RleTrueColorImage" -> 10
      [] t = "RleBlackAndWhiteImage" -> 11

\* TgaImageType::from_u8
from_u8(val) ==
    CASE val = 0 -> [tag |-> "Ok", val |-> "NoImage"]
      [] val = 1 -> [tag |-> "Ok", val |-> "ColorMappedImage"]
      [] val = 2 -> [tag |-> "Ok", val |-> "TrueColorImage"]
      [] val = 3 -> [tag |-> "Ok", val |-> "BlackAndWhiteImage"]
      [] val = 9 -> [tag |-> "Ok", val |-> "RleColorMappedImage"]
      [] val = 10 -> [tag |-> "Ok", val |-> "RleTrueColorImage"]
      [] val = 11 -> [tag |-> "Ok", val |-> "RleBlackAndWhiteImage"]
      [] OTHER -> [tag |-> "Err", err |-> "InvalidImageType"]

\* a plausible slip: the run-length encoded types left out of the color arm
valid_color_NoRle(t, color) ==
    CASE t \in {"NoImage", "RleColorMappedImage", "RleTrueColorImage"} -> FALSE
      [] t \in {"ColorMappedImage", "TrueColorImage"} ->
            (IF color.kind = "Greyscale" THEN FALSE ELSE TRUE)
      [] t \in {"BlackAndWhiteImage", "RleBlackAndWhiteImage"} ->
            (IF color.kind = "Greyscale" THEN TRUE ELSE FALSE)

\* TgaImageType::valid_color
valid_color(t, color) ==
    CASE t = "NoImage" -> FALSE
      [] t \in {"ColorMappedImage", "TrueColorImage",
                "RleColorMappedImage", "RleTrueColorImage"} ->
            (IF color.kind = "Greyscale" THEN FALSE ELSE TRUE)
      [] t \in {"BlackAndWhiteImage", "RleBlackAndWhiteImage"} ->
            (IF color.kind = "Greyscale" THEN TRUE ELSE FALSE)

\* a plausible slip: 16 left out of the color types' depths
valid_depth_No16(t, depth) ==
    CASE t = "NoImage" -> depth = 0
      [] t \in {"ColorMappedImage", "TrueColorImage",
                "RleColorMappedImage", "RleTrueColorImage"} ->
            (IF depth \in {24, 32} THEN TRUE ELSE FALSE)
      [] t \in {"BlackAndWhiteImage", "RleBlackAndWhiteImage"} -> depth = 8

\* TgaImageType::valid_depth
valid_depth(t, depth) ==
    CASE t = "NoImage" -> depth = 0
      [] t \in {"ColorMappedImage", "TrueColorImage",
                "RleColorMappedImage", "RleTrueColorImage"} ->
            (IF depth \in {16, 24, 32} THEN TRUE ELSE FALSE)
      [] t \in {"BlackAndWhiteImage", "RleBlackAndWhiteImage"} -> depth = 8

----------------------------------------------------------------------------
(* TgaHeader *)

\* u16::from_le_bytes([lo, hi])
from_le_bytes(lo, hi) == lo + hi * U8Range

\* TgaHeader::from_buf; buf is a function on 0..17
from_buf(buf) ==
    LET t == from_u8(buf[2]) IN
    IF t.tag = "Err" THEN t
    ELSE [tag |-> "Ok",
          val |-> [id_size |-> buf[0],
                   has_color_map |-> buf[1] # 0,
                   image_type |-> t.val,
                   color_map_first_index |-> from_le_bytes(buf[3], buf[4]),
                   color_map_size |-> from_le_bytes(buf[5], buf[6]),
                   color_map_bit_depth |-> buf[7],
                   x_origin |-> from_le_bytes(buf[8], buf[9]),
                   y_origin |-> from_le_bytes(buf[10], buf[11]),
                   width |-> from_le_bytes(buf[12], buf[13]),
                   height |-> from_le_bytes(buf[14], buf[15]),
                   image_bit_depth |-> buf[16],
                   descriptor |-> buf[17]]]

\* a plausible slip: the depth taken in bits
image_size_Bits(width, height, depth) == width * height * depth

\* the free function image_size, in usize
image_size(width, height, depth) == width * height * (depth \div 8)

\* a plausible slip: the depth left out
header_image_size_NoDepth(h) == h.width * h.height

\* TgaHeader::image_size
header_image_size(h) == image_size(h.width, h.height, h.image_bit_depth)

\* TgaHeader::file_size
file_size(h) == HEADER_SIZE + h.id_size + h.color_map_size + header_image_size(h)

\* `v as u8 & 0xff` of a u16
LowByte(v) == (v % U8Range) % U8Range

\* a plausible slip: the shift left out
HighByte_NoShift(v) == v % U8Range

\* `(v >> 8) as u8` of a u16
HighByte(v) == (v \div U8Range) % U8Range

\* TgaHeader::to_buf, as a sequence of 18 bytes
to_buf(h) ==
    << h.id_size,
       IF h.has_color_map THEN 1 ELSE 0,
       TypeCode(h.image_type),
       LowByte(h.color_map_first_index),
       HighByte(h.color_map_first_index),
       LowByte(h.color_map_size),
       HighByte(h.color_map_size),
       h.color_map_bit_depth,
       LowByte(h.x_origin),
       HighByte(h.x_origin),
       LowByte(h.y_origin),
       HighByte(h.y_origin),
       LowByte(h.width),
       HighByte(h.width),
       LowByte(h.height),
       HighByte(h.height),
       h.image_bit_depth,
       h.descriptor >>

----------------------------------------------------------------------------
(* TgaImage *)

\* the header TgaImage::new creates (lines 242-255)
blank_header(image_type, width, height, depth) ==
    [id_size |-> 0,
     has_color_map |-> FALSE,
     image_type |-> image_type,
     color_map_first_index |-> 0,
     color_map_size |-> 0,
     color_map_bit_depth |-> 0,
     x_origin |-> 0,
     y_origin |-> 0,
     width |-> width,
     height |-> height,
     image_bit_depth |-> depth,
     descriptor |-> 0]

\* a plausible slip: one byte allocated per pixel, whatever the depth
new_OneBytePerPixel(image_type, width, height, depth) ==
    IF ~valid_depth(image_type, depth)
    THEN [tag |-> "Err", err |-> "InvalidPixelDepth"]
    ELSE [tag |-> "Ok",
          val |-> [header |-> blank_header(image_type, width, height, depth),
                   state |-> "Uncompressed",
                   id |-> Zeros(0),
                   color_map |-> Zeros(0),
                   data |-> Zeros(width * height)]]

\* TgaImage::new
new(image_type, width, height, depth) ==
    IF ~valid_depth(image_type, depth)
    THEN [tag |-> "Err", err |-> "InvalidPixelDepth"]
    ELSE [tag |-> "Ok",
          val |-> [header |-> blank_header(image_type, width, height, depth),
                   state |-> "Uncompressed",
                   id |-> Zeros(0),
                   color_map |-> Zeros(0),
                   data |-> Zeros(image_size(width, height, depth))]]

\* buf[0..HEADER_SIZE].try_into(): the first 18 bytes as a fixed array
HeaderBuf(buf) == [i \in 0..(HEADER_SIZE - 1) |-> At(buf, i)]

\* a plausible slip: the bit depth is checked before the declared size
decode_DepthFirst(buf) ==
    LET size == buf.len IN
    IF size < HEADER_SIZE THEN [tag |-> "Err", err |-> "InvalidSize"]
    ELSE LET hr == from_buf(HeaderBuf(buf)) IN
    IF hr.tag = "Err" THEN hr
    ELSE LET header == hr.val IN
    IF ~valid_depth(header.image_type, header.image_bit_depth)
    THEN [tag |-> "Err", err |-> "InvalidPixelDepth"]
    ELSE IF size < file_size(header) THEN [tag |-> "Err", err |-> "InvalidSize"]
    ELSE LET idx0 == HEADER_SIZE
             idx1 == idx0 + header.id_size
             idx2 == idx1 + header.color_map_size
         IN  [tag |-> "Ok",
              val |-> [header |-> header,
                       state |-> "Uncompressed",
                       id |-> Slice(buf, idx0, idx0 + header.id_size),
                       color_map |-> Slice(buf, idx1, idx1 + header.color_map_size),
                       data |-> Slice(buf, idx2,
                                      idx2 + image_size(header.width, header.height,
                                                        header.image_bit_depth))]]

\* TgaImage::from_file once the file's content buf has been read (lines 283-315)
decode(buf) ==
    LET size == buf.len IN
    IF size < HEADER_SIZE THEN [tag |-> "Err", err |-> "InvalidSize"]
    ELSE LET hr == from_buf(HeaderBuf(buf)) IN
    IF hr.tag = "Err" THEN hr
    ELSE LET header == hr.val IN
    IF size < file_size(header) THEN [tag |-> "Err", err |-> "InvalidSize"]
    ELSE IF ~valid_depth(header.image_type, header.image_bit_depth)
    THEN [tag |-> "Err", err |-> "InvalidPixelDepth"]
    ELSE LET idx0 == HEADER_SIZE
             idx1 == idx0 + header.id_size
             idx2 == idx1 + header.color_map_size
         IN  [tag |-> "Ok",
              val |-> [header |-> header,
                       state |-> "Uncompressed",
                       id |-> Slice(buf, idx0, idx0 + header.id_size),
                       color_map |-> Slice(buf, idx1, idx1 + header.color_map_size),
                       data |-> Slice(buf, idx2,
                                      idx2 + image_size(header.width, header.height,
                                                        header.image_bit_depth))]]

\* TgaImage::from_file, whose &self is never read; io is what the file system
\* does: "ok", or File::open fails ("open"), or read_to_end fails ("read")
from_file(io, buf) ==
    IF io = "open" THEN [tag |-> "Err", err |-> "FileOpen"]
    ELSE IF io = "read" THEN [tag |-> "Err", err |-> "FileRead"]
    ELSE decode(buf)

\* one u16 operation whose mathematical result is v: with overflow checks (the
\* dev profile) a result out of range panics, without them (the release
\* profile) it wraps
U16(v) == [overflow |-> v >= U16Range, val |-> v % U16Range]

\* the write of set_pixel (lines 335-343), in u16 arithmetic; checks is the
\* build's overflow-checks setting.  The result carries the image as the call
\* leaves it.
write_pixel(self, x, y, color, depth, checks) ==
    LET bytes == depth \div 8
        mul   == U16(y * self.header.width)
        add   == U16(x + mul.val)
        start == U16(add.val * bytes)
        end   == U16(start.val + bytes)
    IN  IF checks /\ (mul.overflow \/ add.overflow \/ start.overflow \/ end.overflow)
        THEN [tag |-> "Panic", image |-> self]
        ELSE IF ~RangeOk(self.data, start.val, end.val)
        THEN [tag |-> "Panic", image |-> self]
        ELSE IF end.val - start.val # as_slice(color).len
        THEN [tag |-> "Panic", image |-> self]
        ELSE [tag |-> "Ok",
              image |-> [self EXCEPT !.data =
                            CopyFromSlice(self.data, start.val, as_slice(color))]]

\* a plausible slip: the pixel is written before the depth check
set_pixel_WriteFirst(self, x, y, color, checks) ==
    IF self.header.width <= x \/ self.header.height <= y
    THEN [tag |-> "Err", err |-> "InvalidCoordinate", image |-> self]
    ELSE IF ~valid_color(self.header.image_type, color)
    THEN [tag |-> "Err", err |-> "InvalidColor", image |-> self]
    ELSE LET depth == bit_depth(color)
             w == write_pixel(self, x, y, color, depth, checks)
         IN  IF ~valid_depth(self.header.image_type, depth)
                \/ depth # self.header.image_bit_depth
             THEN [tag |-> "Err", err |-> "InvalidPixelDepth", image |-> w.image]
             ELSE w

\* TgaImage::set_pixel
set_pixel(self, x, y, color, checks) ==
    IF self.header.width <= x \/ self.header.height <= y
    THEN [tag |-> "Err", err |-> "InvalidCoordinate", image |-> self]
    ELSE IF ~valid_color(self.header.image_type, color)
    THEN [tag |-> "Err", err |-> "InvalidColor", image |-> self]
    ELSE LET depth == bit_depth(color) IN
    IF ~valid_depth(self.header.image_type, depth) \/ depth # self.header.image_bit_depth
    THEN [tag |-> "Err", err |-> "InvalidPixelDepth", image |-> self]
    ELSE write_pixel(self, x, y, color, depth, checks)

\* the buffer TgaImage::to_file builds (lines 348-360), or a panic
encode(self) ==
    LET buf0 == Zeros(file_size(self.header))
        id_size == self.header.id_size
        color_map_size == self.header.color_map_size
        img_size == header_image_size(self.header)
        buf1 == CopyFromSlice(buf0, 0, FromSeq(to_buf(self.header)))
        idx0 == HEADER_SIZE
        idx1 == idx0 + id_size
        idx2 == idx1 + color_map_size
    IN  IF ~RangeOk(buf0, 0, HEADER_SIZE) THEN [tag |-> "Panic"]
        ELSE IF ~RangeOk(buf0, idx0, idx0 + id_size) \/ self.id.len # id_size
        THEN [tag |-> "Panic"]
        ELSE IF ~RangeOk(buf0, idx1, idx1 + color_map_size)
                \/ self.color_map.len # color_map_size
        THEN [tag |-> "Panic"]
        ELSE IF ~RangeOk(buf0, idx2, idx2 + img_size) \/ self.data.len # img_size
        THEN [tag |-> "Panic"]
        ELSE [tag |-> "Ok",
              val |-> CopyFromSlice(
                          CopyFromSlice(
                              CopyFromSlice(buf1, idx0, self.id),
                              idx1, self.color_map),
                          idx2, self.data)]

----------------------------------------------------------------------------
(* The inputs of the program's calls *)

\* the number of set_pixel calls a run makes
MaxSetPixel == 2

\* the length of the file that is too short for a header (spec, section 8)
ShortLen == 10

\* the bytes a file holds beyond what its header declares
ExtraLen == 2

\* width and height of the images new() builds: empty, small, the two sizes
\* of tests.rs, and the widest
Dims == {<<0, 5>>, <<2, 3>>, <<25, 25>>, <<1920, 1080>>, <<65535, 1>>}

\* bit depths given to new(): the five of the compatibility table and two others
Depths == {0, 8, 16, 24, 32, 7, 255}

\* the colors given to set_pixel
Colors ==
    {[kind |-> "Greyscale", bytes |-> <<255>>],
     [kind |-> "RGB16", bytes |-> <<1, 2>>],
     [kind |-> "RGB24", bytes |-> <<0, 0, 255>>],
     [kind |-> "RGBA", bytes |-> <<10, 20, 30, 40>>]}

\* the coordinates given to set_pixel on an image of size w x h: the first
\* pixel, its right neighbour, the last pixel, the first coordinates out of
\* range in x and in y, and, on an image wide enough to have it, pixel 43690
\* of the first row (43690 * 3 = 2 * 65536 - 2)
Coords(w, h) ==
    {c \in {<<0, 0>>, <<1, 0>>, <<w - 1, h - 1>>, <<w, 0>>, <<0, h>>, <<43690, 0>>} :
        /\ c[1] \in 0..(U16Range - 1) /\ c[2] \in 0..(U16Range - 1)
        /\ c[1] = 43690 => w > 43690}

\* the headers of the files given to from_file, the type byte being any u8
RawHeaders ==
    [id_size : {0, 2}, has_color_map : {1}, code : {0, 2, 3, 5},
     color_map_first_index : {1}, color_map_size : {0, 3},
     color_map_bit_depth : {24}, x_origin : {258}, y_origin : {513},
     width : {2}, height : {3}, image_bit_depth : {0, 7, 8, 24},
     descriptor : {32}]

\* the 18 bytes of such a header, in the layout of spec section 6
RawBytes(r) ==
    << r.id_size, r.has_color_map, r.code,
       r.color_map_first_index % 256, r.color_map_first_index \div 256,
       r.color_map_size % 256, r.color_map_size \div 256,
       r.color_map_bit_depth,
       r.x_origin % 256, r.x_origin \div 256,
       r.y_origin % 256, r.y_origin \div 256,
       r.width % 256, r.width \div 256,
       r.height % 256, r.height \div 256,
       r.image_bit_depth, r.descriptor >>

\* the length such a header declares
RawSize(r) ==
    18 + r.id_size + r.color_map_size + r.width * r.height * (r.image_bit_depth \div 8)

\* a file of n bytes: the header r, then bytes that are all non-zero and
\* differ from their neighbours
RawFile(r, n) ==
    [len |-> n,
     nz  |-> [i \in {j \in 0..(n - 1) : j >= 18 \/ RawBytes(r)[j + 1] # 0}
                |-> IF i < 18 THEN RawBytes(r)[i + 1] ELSE ((i * 7) % 255) + 1]]

\* the files given to from_file: too short for a header, the header alone,
\* one byte short of the declared size, exactly it, and longer
FileInputs ==
    {RawFile(r, n) : r \in RawHeaders, n \in {ShortLen} } \cup
    UNION {{RawFile(r, RawSize(r) - 1), RawFile(r, RawSize(r)),
            RawFile(r, RawSize(r) + ExtraLen)} : r \in RawHeaders}

----------------------------------------------------------------------------
(* The program: one image, one file, and the caller's position *)

VARIABLES
    image,            \* the TgaImage the caller holds, or Absent
    file,             \* the content of the file on disk, or Absent
    call,             \* the call that has just returned, with its arguments
                      \* and the image it was made on; [name |-> "none"] when
                      \* the caller has taken the result
    ret,              \* what that call returned
    overflow_checks,  \* the build: TRUE in the dev profile, FALSE in release
    npix,             \* set_pixel calls made so far
    hdr, hbuf, hdec,  \* the header codec's input, encoding and decoding
    targ, tres        \* the validation table's input and answers

vars == <<image, file, call, ret, overflow_checks, npix, hdr, hbuf, hdec, targ, tres>>
codecVars == <<hdr, hbuf, hdec>>
tableVars == <<targ, tres>>
imageVars == <<image, file, call, ret, overflow_checks, npix>>

Absent == [absent |-> TRUE]
Idle == [name |-> "none"]
NoResult == [tag |-> "none"]
NoAnswers == [n \in {} |-> FALSE]

\* what the caller sees of a Result: Ok, the error, or the panic
Outcome(r) ==
    IF r.tag = "Err" THEN [tag |-> "Err", err |-> r.err] ELSE [tag |-> r.tag]

Init ==
    /\ image = Absent
    /\ file \in {Absent} \cup FileInputs
    /\ call = Idle
    /\ ret = NoResult
    /\ overflow_checks \in BOOLEAN
    /\ npix = 0
    /\ hdr = Absent /\ hbuf = <<>> /\ hdec = NoResult
    /\ targ = Absent /\ tres = NoAnswers

\* TgaImage::new(image_type, width, height, bit_depth), by a program that
\* starts without a file
New(t, w, h, d) ==
    /\ call = Idle /\ image = Absent /\ file = Absent
    /\ LET r == new(t, w, h, d) IN
       /\ image' = IF r.tag = "Ok" THEN r.val ELSE image
       /\ ret' = Outcome(r)
    /\ call' = [name |-> "new", image_type |-> t, width |-> w, height |-> h,
                bit_depth |-> d, self |-> image]
    /\ UNCHANGED <<file, overflow_checks, npix, codecVars, tableVars>>

\* image.from_file(filename) on the file on disk
FromFile(io) ==
    /\ call = Idle /\ file # Absent
    /\ LET r == from_file(io, file) IN
       /\ image' = IF r.tag = "Ok" THEN r.val ELSE image
       /\ ret' = Outcome(r)
    /\ call' = [name |-> "from_file", io |-> io, bytes |-> file, self |-> image]
    /\ UNCHANGED <<file, overflow_checks, npix, codecVars, tableVars>>

\* image.set_pixel(x, y, color)
SetPixel(x, y, color) ==
    /\ call = Idle /\ image # Absent /\ npix < MaxSetPixel
    /\ LET r == set_pixel(image, x, y, color, overflow_checks) IN
       /\ image' = r.image
       /\ ret' = Outcome(r)
    /\ call' = [name |-> "set_pixel", x |-> x, y |-> y, color |-> color, self |-> image]
    /\ npix' = npix + 1
    /\ UNCHANGED <<file, overflow_checks, codecVars, tableVars>>

\* image.to_file(filename); io is what the file system does: "ok", or
\* File::create fails ("create"), or write_all fails ("write") having created
\* the file and written none of the buffer or its header only
ToFile(io, written) ==
    /\ call = Idle /\ image # Absent
    /\ LET r == encode(image) IN
       IF r.tag = "Panic"
       THEN /\ ret' = [tag |-> "Panic"]
            /\ file' = file
       ELSE IF io = "create"
       THEN /\ ret' = [tag |-> "Err", err |-> "FileOpen"]
            /\ file' = file
       ELSE IF io = "write"
       THEN /\ ret' = [tag |-> "Err", err |-> "FileWrite"]
            /\ file' = Slice(r.val, 0, written)
       ELSE /\ ret' = [tag |-> "Ok"]
            /\ file' = r.val
    /\ call' = [name |-> "to_file", io |-> io, self |-> image]
    /\ UNCHANGED <<image, overflow_checks, npix, codecVars, tableVars>>

\* the caller takes the result and goes on; a panic ends the program
Return ==
    /\ call # Idle /\ ret.tag # "Panic"
    /\ call' = Idle
    /\ ret' = NoResult
    /\ UNCHANGED <<image, file, overflow_checks, npix, codecVars, tableVars>>

\* the coordinates tried on the image held
PixelInputs ==
    IF image = Absent THEN {} ELSE Coords(image.header.width, image.header.height)

Next ==
    \/ \E t \in ImageTypes, wh \in Dims, d \in Depths : New(t, wh[1], wh[2], d)
    \/ \E io \in {"ok", "open", "read"} : FromFile(io)
    \/ \E c \in PixelInputs, color \in Colors : SetPixel(c[1], c[2], color)
    \/ \E io \in {"ok", "create", "write"}, written \in {0, HEADER_SIZE} : ToFile(io, written)
    \/ Return

Spec == Init /\ [][Next]_vars

----------------------------------------------------------------------------
(* The header codec alone: a header is encoded, and the encoding decoded *)

U8Samples == {0, 255}
U16Samples == {0, 258, 65535}

Headers ==
    [id_size : U8Samples, has_color_map : BOOLEAN, image_type : ImageTypes,
     color_map_first_index : U16Samples, color_map_size : U16Samples,
     color_map_bit_depth : U8Samples, x_origin : U16Samples,
     y_origin : U16Samples, width : U16Samples, height : U16Samples,
     image_bit_depth : U8Samples, descriptor : U8Samples]

InitHeader ==
    /\ hdr \in Headers
    /\ hbuf = <<>>
    /\ hdec = NoResult
    /\ image = Absent /\ file = Absent /\ call = Idle /\ ret = NoResult
    /\ overflow_checks = FALSE /\ npix = 0
    /\ targ = Absent /\ tres = NoAnswers

\* hdr.to_buf()
ToBuf ==
    /\ hbuf = <<>>
    /\ hbuf' = to_buf(hdr)
    /\ UNCHANGED <<hdr, hdec, imageVars, tableVars>>

\* TgaHeader::from_buf on the array to_buf returned
FromBuf ==
    /\ hbuf # <<>> /\ hdec = NoResult
    /\ hdec' = from_buf([i \in 0..(HEADER_SIZE - 1) |-> hbuf[i + 1]])
    /\ UNCHANGED <<hdr, hbuf, imageVars, tableVars>>

NextHeader == ToBuf \/ FromBuf

SpecHeader == InitHeader /\ [][NextHeader]_vars

----------------------------------------------------------------------------
(* The validation predicates alone, on every type, color kind and u8 depth *)

TableArgs == [t : ImageTypes, color : Colors, depth : 0..(U8Range - 1)]

InitTable ==
    /\ targ \in TableArgs
    /\ tres = NoAnswers
    /\ image = Absent /\ file = Absent /\ call = Idle /\ ret = NoResult
    /\ overflow_checks = FALSE /\ npix = 0
    /\ hdr = Absent /\ hbuf = <<>> /\ hdec = NoResult

\* targ.t.valid_color(targ.color)
ValidColor ==
    /\ "valid_color" \notin DOMAIN tres
    /\ tres' = [n \in DOMAIN tres \cup {"valid_color"} |->
                  IF n = "valid_color" THEN valid_color(targ.t, targ.color) ELSE tres[n]]
    /\ UNCHANGED <<targ, imageVars, codecVars>>

\* targ.t.valid_depth(targ.depth)
ValidDepth ==
    /\ "valid_depth" \notin DOMAIN tres
    /\ tres' = [n \in DOMAIN tres \cup {"valid_depth"} |->
                  IF n = "valid_depth" THEN valid_depth(targ.t, targ.depth) ELSE tres[n]]
    /\ UNCHANGED <<targ, imageVars, codecVars>>

NextTable == ValidColor \/ ValidDepth

SpecTable == InitTable /\ [][NextTable]_vars

----------------------------------------------------------------------------
(* The claims *)

Err(e) == [tag |-> "Err", err |-> e]
Ok == [tag |-> "Ok"]

\* after is before with the bytes of payload at offset off, and nothing else
\* changed
PixelWritten(before, after, off, payload) ==
    /\ after.len = before.len
    /\ \A i \in DOMAIN after.nz \cup DOMAIN before.nz
                  \cup off..(off + Len(payload) - 1) :
          At(after, i) = IF off <= i /\ i < off + Len(payload)
                         THEN payload[i - off + 1] ELSE At(before, i)

\* the last call was set_pixel with a coordinate, a color and a depth the
\* image accepts
AcceptedSetPixel ==
    /\ call.name = "set_pixel"
    /\ call.x < call.self.header.width
    /\ call.y < call.self.header.height
    /\ valid_color(call.self.header.image_type, call.color)
    /\ bit_depth(call.color) = call.self.header.image_bit_depth

\* C1: a set_pixel call with an in-range coordinate and a color of the image's
\* kind and depth succeeds, and replaces exactly the byte_depth bytes at
\* offset (x + y*width) * byte_depth of the pixel region by the color's
\* payload, whatever the image's size.
C1_SetPixelWritesThePixel ==
    AcceptedSetPixel =>
        /\ ret = Ok
        /\ PixelWritten(call.self.data, image.data,
                        (call.x + call.y * call.self.header.width)
                            * byte_depth(call.color),
                        call.color.bytes)
        /\ image.header = call.self.header
        /\ image.id = call.self.id
        /\ image.color_map = call.self.color_map

\* what the three checks of set_pixel, in their order, give
SetPixelOutcome(self, x, y, color) ==
    IF x >= self.header.width \/ y >= self.header.height
    THEN Err("InvalidCoordinate")
    ELSE IF ~valid_color(self.header.image_type, color)
    THEN Err("InvalidColor")
    ELSE IF ~valid_depth(self.header.image_type, bit_depth(color))
            \/ bit_depth(color) # self.header.image_bit_depth
    THEN Err("InvalidPixelDepth")
    ELSE Ok

\* C2: set_pixel's outcome is the error of the first failing check among
\* coordinate, color and depth, in that order, and success when none fails.
C2_SetPixelCheckOrder ==
    call.name = "set_pixel" => ret = SetPixelOutcome(call.self, call.x, call.y, call.color)

\* C3: a set_pixel call that returns an error leaves the image as it was:
\* header, id, color map and every pixel byte.
C3_FailedSetPixelChangesNothing ==
    (call.name = "set_pixel" /\ ret.tag = "Err") => image = call.self

\* set_pixel has failed its last check, the depth check, on an image read
\* from a file, whose pixel bytes are not zero
C3_Witness ==
    /\ call.name = "set_pixel"
    /\ ret = Err("InvalidPixelDepth")
    /\ image.header.id_size > 0
    /\ image.data.nz # NoBytes

\* C4: encoding any image the program can hold and decoding the result
\* succeeds and gives the same header, id, color map and pixel bytes.
C4_FileRoundTrip ==
    image # Absent =>
        LET e == encode(image) IN
        /\ e.tag = "Ok"
        /\ decode(e.val).tag = "Ok"
        /\ decode(e.val).val.header = image.header
        /\ decode(e.val).val.id = image.id
        /\ decode(e.val).val.color_map = image.color_map
        /\ decode(e.val).val.data = image.data

\* from_file has just read back what to_file wrote of an image that has an
\* id, a color map and a pixel written by set_pixel
C4_Witness ==
    /\ call.name = "from_file"
    /\ ret = Ok
    /\ call.self # Absent
    /\ image = call.self
    /\ npix > 0
    /\ image.id.len > 0
    /\ image.color_map.len > 0
    /\ \E i \in DOMAIN image.data.nz : image.data.nz[i] = 255

\* C5: decoding the 18 bytes to_buf gives for a header returns that header,
\* and the bytes hold every u16 field low byte first.
C5_HeaderRoundTrip ==
    /\ hbuf # <<>> =>
          /\ Len(hbuf) = 18
          /\ \A i \in 1..18 : hbuf[i] \in 0..255
          /\ hbuf[1] = hdr.id_size
          /\ hbuf[2] = (IF hdr.has_color_map THEN 1 ELSE 0)
          /\ hbuf[3] \in {0, 1, 2, 3, 9, 10, 11}
          /\ hbuf[4] + 256 * hbuf[5] = hdr.color_map_first_index
          /\ hbuf[6] + 256 * hbuf[7] = hdr.color_map_size
          /\ hbuf[8] = hdr.color_map_bit_depth
          /\ hbuf[9] + 256 * hbuf[10] = hdr.x_origin
          /\ hbuf[11] + 256 * hbuf[12] = hdr.y_origin
          /\ hbuf[13] + 256 * hbuf[14] = hdr.width
          /\ hbuf[15] + 256 * hbuf[16] = hdr.height
          /\ hbuf[17] = hdr.image_bit_depth
          /\ hbuf[18] = hdr.descriptor
    /\ hdec # NoResult => hdec = [tag |-> "Ok", val |-> hdr]

\* a header whose u16 fields have different low and high bytes has been
\* encoded and decoded
C5_Witness ==
    /\ hdec.tag = "Ok"
    /\ hdr.width = 258 /\ hdr.height = 65535 /\ hdr.x_origin = 258
    /\ hdr.has_color_map
    /\ hdr.image_type = "RleBlackAndWhiteImage"
    /\ hbuf[13] = 2 /\ hbuf[14] = 1

\* what from_file's checks, in their order, give for the bytes b of a file
DecodeOutcome(b) ==
    IF b.len < 18 THEN Err("InvalidSize")
    ELSE IF At(b, 2) \notin {0, 1, 2, 3, 9, 10, 11} THEN Err("InvalidImageType")
    ELSE IF b.len < 18 + At(b, 0) + (At(b, 5) + 256 * At(b, 6))
                       + (At(b, 12) + 256 * At(b, 13)) * (At(b, 14) + 256 * At(b, 15))
                           * (At(b, 16) \div 8)
    THEN Err("InvalidSize")
    ELSE IF ~valid_depth(from_u8(At(b, 2)).val, At(b, 16)) THEN Err("InvalidPixelDepth")
    ELSE Ok

\* C6: from_file's outcome on a file it could read is the error of the first
\* failing check among: 18 bytes, type code, declared size, bit depth; and an
\* image when none fails.
C6_DecodeCheckOrder ==
    (call.name = "from_file" /\ call.io = "ok") =>
        /\ ret = DecodeOutcome(call.bytes)
        /\ ret = Ok => image # Absent
        /\ ret # Ok => image = call.self

\* a file shorter than its header declares, whose bit depth is invalid for
\* its type, has been refused with InvalidSize
C6_Witness ==
    /\ call.name = "from_file" /\ call.io = "ok"
    /\ call.bytes.len >= 18
    /\ At(call.bytes, 2) = 2
    /\ At(call.bytes, 16) = 7
    /\ ret = Err("InvalidSize")

\* C7: new fails with InvalidPixelDepth exactly when valid_depth refuses the
\* depth; otherwise the image has the given type, size and depth, every other
\* header field zero, no id, no color map, and width*height*(depth/8) zero
\* pixel bytes.
C7_New ==
    call.name = "new" =>
        /\ (ret = Err("InvalidPixelDepth")) <=> ~valid_depth(call.image_type, call.bit_depth)
        /\ ret # Ok => (ret.tag = "Err" /\ image = call.self)
        /\ valid_depth(call.image_type, call.bit_depth) =>
              /\ ret = Ok
              /\ image.header.image_type = call.image_type
              /\ image.header.width = call.width
              /\ image.header.height = call.height
              /\ image.header.image_bit_depth = call.bit_depth
              /\ image.header.id_size = 0
              /\ image.header.has_color_map = FALSE
              /\ image.header.color_map_first_index = 0
              /\ image.header.color_map_size = 0
              /\ image.header.color_map_bit_depth = 0
              /\ image.header.x_origin = 0
              /\ image.header.y_origin = 0
              /\ image.header.descriptor = 0
              /\ image.id = [len |-> 0, nz |-> NoBytes]
              /\ image.color_map = [len |-> 0, nz |-> NoBytes]
              /\ image.data = [len |-> call.width * call.height * (call.bit_depth \div 8),
                               nz |-> NoBytes]

\* the 1920 x 1080 true color image of tests.rs has been built
C7_Witness ==
    /\ call.name = "new"
    /\ ret = Ok
    /\ call.image_type = "TrueColorImage"
    /\ call.width = 1920 /\ call.height = 1080 /\ call.bit_depth = 24
    /\ image.data.len = 6220800

\* C8: every image the program holds has regions of the lengths its header
\* declares and a depth valid for its type, so file_size() is 18 plus the
\* three lengths and to_file builds, without a length mismatch, a buffer of
\* file_size() bytes: header, id, color map, pixels, in that order.
C8_ImageInvariant ==
    image # Absent =>
        /\ image.id.len = image.header.id_size
        /\ image.color_map.len = image.header.color_map_size
        /\ image.data.len = image.header.width * image.header.height
                                * (image.header.image_bit_depth \div 8)
        /\ valid_depth(image.header.image_type, image.header.image_bit_depth)
        /\ file_size(image.header)
              = 18 + image.id.len + image.color_map.len + image.data.len
        /\ LET e == encode(image)
               a == 18 + image.id.len
               b == a + image.color_map.len
           IN  /\ e.tag = "Ok"
               /\ e.val.len = file_size(image.header)
               /\ Slice(e.val, 0, 18) = FromSeq(to_buf(image.header))
               /\ Slice(e.val, 18, a) = image.id
               /\ Slice(e.val, a, b) = image.color_map
               /\ Slice(e.val, b, e.val.len) = image.data

\* to_file has written an image that came from a file with an id and a color
\* map and has had MaxSetPixel set_pixel calls, one of which wrote a 255
C8_Witness ==
    /\ call.name = "to_file" /\ ret = Ok
    /\ npix = MaxSetPixel
    /\ image.id.len > 0 /\ image.color_map.len > 0
    /\ file.len = 18 + image.id.len + image.color_map.len + image.data.len
    /\ \E i \in DOMAIN image.data.nz : image.data.nz[i] = 255

\* the compatibility table of the specification
TableColors(t) ==
    IF t = "NoImage" THEN {}
    ELSE IF t \in {"BlackAndWhiteImage", "RleBlackAndWhiteImage"} THEN {"Greyscale"}
    ELSE {"RGB16", "RGB24", "RGBA"}

TableDepths(t) ==
    IF t = "NoImage" THEN {0}
    ELSE IF t \in {"BlackAndWhiteImage", "RleBlackAndWhiteImage"} THEN {8}
    ELSE {16, 24, 32}

\* C9: valid_color and valid_depth answer as the compatibility table says,
\* for every image type, color variant and depth 0..255.
C9_CompatibilityTable ==
    /\ "valid_color" \in DOMAIN tres =>
          (tres["valid_color"] <=> targ.color.kind \in TableColors(targ.t))
    /\ "valid_depth" \in DOMAIN tres =>
          (tres["valid_depth"] <=> targ.depth \in TableDepths(targ.t))

\* both predicates have answered yes for a run-length encoded type
C9_Witness ==
    /\ DOMAIN tres = {"valid_color", "valid_depth"}
    /\ targ.t = "RleTrueColorImage"
    /\ targ.color.kind = "RGB16" /\ targ.depth = 32
    /\ tres["valid_color"] /\ tres["valid_depth"]

\* C10: a color valid for the image's type has a depth valid for it, so once
\* the coordinate and color checks pass set_pixel returns InvalidPixelDepth
\* exactly when the color's depth is not the image's; and set_pixel never
\* succeeds on a NoImage image.
C10_DepthCheckIsEquality ==
    call.name = "set_pixel" =>
        LET t == call.self.header.image_type IN
        /\ valid_color(t, call.color) => valid_depth(t, bit_depth(call.color))
        /\ (/\ call.x < call.self.header.width
            /\ call.y < call.self.header.height
            /\ valid_color(t, call.color)) =>
              ((ret = Err("InvalidPixelDepth"))
                  <=> bit_depth(call.color) # call.self.header.image_bit_depth)
        /\ t = "NoImage" => ret # Ok

\* a 16-bit color has been refused by a true color image of another depth
C10_Witness ==
    /\ call.name = "set_pixel"
    /\ call.x < call.self.header.width /\ call.y < call.self.header.height
    /\ call.color.kind = "RGB16"
    /\ call.self.header.image_type = "RleTrueColorImage"
    /\ call.self.header.image_bit_depth = 24
    /\ ret = Err("InvalidPixelDepth")

====
